---- MODULE Spec2Model ----
(***************************************************************************)
(* A model of the workout-plan generator of conegliano_utilities           *)
(* (src/conegliano_utilities/workout.py): the exercise catalog held by a   *)
(* WorkoutGenerator, its three allocator operations, get_exercises,        *)
(* get_random_exercises_with_area_coverage and get_area_allocations, and   *)
(* the plan builder, generate_workout_plan.                                *)
(*                                                                         *)
(* Numbers.  Catalog difficulties are integers.  A target difficulty and   *)
(* a tolerance are multiples of 0.5 and are held as the number of halves   *)
(* (8 is 4.0, 1 is 0.5), so that the float test                            *)
(*     abs(mean - difficulty) <= tolerance                                 *)
(* over n rows of sum s is the integer test  |2*s - n*d| <= n*t.  With     *)
(* integer difficulties and half-unit targets the float computation agrees *)
(* with the exact one: the boundary |mean - d| = t is only met by means    *)
(* that are multiples of 0.5, which floats hold exactly.                   *)
(*                                                                         *)
(* Randomness.  random.choice / random.choices are a nondeterministic      *)
(* choice of row indices.  list(set(...)) has no specified order (string   *)
(* hashing is randomised per process): it is any ordering of the set.      *)
(***************************************************************************)
EXTENDS Integers, Sequences, FiniteSets, TLC

VARIABLES
    df,               \* self.df: the catalog, a sequence of rows
    pc,               \* position: "idle", "ge_loop", "cov_loop", "done"
    op,               \* the operation called: "none", "get_exercises", "coverage", "allocations"
    area,             \* argument area of get_exercises
    difficulty,       \* argument difficulty, in halves
    exercise_amount,  \* argument exercise_amount
    tolerance,        \* argument tolerance, in halves
    total_exercises,  \* argument total_exercises of get_area_allocations
    more_abs,         \* argument more_abs of get_area_allocations
    attempt,          \* rejected attempts of the running sampling loop
    draws,            \* calls made to the random generator since the call started
    ret,              \* which return was taken: "none", "raised", "padded", "accepted",
                      \*   "exhausted", "fallback", "allocated"
    result,           \* the returned list (a sequence of names, "" a placeholder)
    allocation,       \* the returned dict of get_area_allocations, a function from area to quota
    instance,         \* the generator: "none", "ready", or "failed" (construction raised)
    source,           \* the caller's table: [columns, rows]
    days,             \* argument days of generate_workout_plan
    use_area_coverage,   \* argument use_area_coverage
    custom_allocations,  \* argument custom_allocations: the dict's items, << >> for None
    save_to_repo,     \* argument save_to_repo
    workout_df,       \* the plan under construction: its difficulty columns, in order
    information_rows, \* the local information_rows, << >> while unbound
    plan,             \* the returned table: [information, columns]
    error,            \* the exception raised: "none", "ValueError", "UnboundLocalError"
    fell_back,        \* an allocator call of this plan ran out of attempts
    save_outcome,     \* how persisting went: "none", "saved", or the step that failed
    second_run,       \* whether a second run on the same draws is followed
    second_df,        \* the difficulty columns of the second run
    title,            \* argument title of smart_issue
    priority,         \* argument priority of smart_issue
    force_local,      \* argument force_local of smart_issue
    github_token,     \* what get_github_token gave: "unknown", "token", "none", "raised"
    github,           \* how create_github_issue went: "not_attempted", "success",
                      \*   "failure" (a non-success result), "raised"
    local_store,      \* how store_issue_locally went: "not_attempted", "stored", "failed"
    contacts,         \* the stores contacted so far, in order: "github", "local"
    issue_result      \* the dict returned by smart_issue: [success, storage_type, title]

\* the variables of one allocator call
callVars == << area, difficulty, exercise_amount, tolerance, total_exercises, more_abs,
               attempt, draws, result, allocation >>

\* the variables of the construction and of the plan builder
planVars == << instance, source, days, use_area_coverage, custom_allocations, save_to_repo,
               workout_df, information_rows, plan, error, fell_back, save_outcome,
               second_run, second_df >>

\* the variables of smart_issue
issueVars == << title, priority, force_local, github_token, github, local_store, contacts,
                issue_result >>

vars == << df, pc, op, ret, callVars, planVars, issueVars >>

----------------------------------------------------------------------------
(* Bounds and program constants *)

\* the largest exercise_amount a call of get_exercises is made with
MaxAmount == 3

\* the largest exercise_amount a call of get_random_exercises_with_area_coverage
\* is made with
MaxCoverageAmount == 3

\* the largest total_exercises a call of get_area_allocations is made with
MaxTotal == 9

\* the largest number of rows of the catalogs get_area_allocations is called on
MaxRows == 4

\* the largest number of difficulty levels a plan is built for
MaxDays == 2

\* range(1000) of get_exercises
MaxAttempts == 1000

\* range(1000) of get_random_exercises_with_area_coverage
MaxCoverageAttempts == 1000

----------------------------------------------------------------------------
(* The catalog *)

Row(e, a, d) == [exercise |-> e, area |-> a, diffucility |-> d]

\* the catalog of the specification's scenario
SpecCatalog ==
    << Row("A", "Legs", 3), Row("B", "Legs", 5), Row("C", "Abs", 2), Row("D", "Abs", 4) >>

\* the catalog of the unit tests
TestCatalog ==
    << Row("Push-ups", "Upper", 3), Row("Squats", "Legs", 4), Row("Crunches", "Abs", 2),
       Row("Pull-ups", "Upper", 5), Row("Lunges", "Legs", 3), Row("Plank", "Abs", 4) >>

\* a catalog in which one record appears twice (same name, area and difficulty)
DupCatalog ==
    << Row("A", "Legs", 3), Row("A", "Legs", 3), Row("B", "Legs", 6), Row("C", "Abs", 6) >>

\* a catalog of one record
SingleCatalog == << Row("A", "Abs", 4) >>

\* a catalog of two records of one area
PairCatalog == << Row("A", "Legs", 3), Row("B", "Legs", 5) >>

Catalogs == { SpecCatalog, TestCatalog, DupCatalog, SingleCatalog, PairCatalog }

\* a catalog of one area that is not "Abs"
LegsCatalog ==
    << Row("A", "Legs", 3), Row("B", "Legs", 5), Row("C", "Legs", 4) >>

\* a catalog of two areas whose names are unique
TwoAreaCatalog ==
    << Row("A", "Legs", 3), Row("B", "Legs", 5), Row("C", "Abs", 4) >>

\* the catalogs plans are built from
PlanCatalogs == { TwoAreaCatalog, DupCatalog, SingleCatalog, LegsCatalog }

\* the catalogs get_area_allocations is called on: every sequence of areas of
\* 1..MaxRows rows (an area may repeat, "Abs" may be absent or at any place)
AllocationAreas == { "Abs", "Legs", "Upper" }
ExerciseNames == << "E1", "E2", "E3", "E4", "E5", "E6" >>
AllocationCatalogs ==
    { [i \in 1..Len(ar) |-> Row(ExerciseNames[i], ar[i], 3)] :
        ar \in UNION { [1..n -> AllocationAreas] : n \in 1..MaxRows } }

\* argument values of the calls
AreaInputs == { "Legs", "Abs", "Upper", "NonExistent" }
Difficulties == { 6, 8 }
Tolerances == { 0, 1 }

----------------------------------------------------------------------------
(* Helpers on sequences *)

Range(s) == { s[i] : i \in 1..Len(s) }

RECURSIVE SumSeq(_)
SumSeq(s) == IF s = << >> THEN 0 ELSE Head(s) + SumSeq(Tail(s))

Abs(x) == IF x < 0 THEN -x ELSE x

\* [x] * n
Repeat(x, n) == [i \in 1..n |-> x]

\* df.area.unique().tolist(): the areas in order of first appearance
RECURSIVE UniqueAreasFrom(_, _)
UniqueAreasFrom(rows, seen) ==
    IF rows = << >> THEN << >>
    ELSE IF Head(rows).area \in seen
         THEN UniqueAreasFrom(Tail(rows), seen)
         ELSE << Head(rows).area >> \o UniqueAreasFrom(Tail(rows), seen \cup { Head(rows).area })

unique_areas(d) == UniqueAreasFrom(d, {})

\* a filter that keeps every row
local_df_unfiltered(d, a) == d

\* self.df[self.df.area == area]
local_df(d, a) == LET InArea(r) == r.area = a IN SelectSeq(d, InArea)

\* frame.exercise.tolist()
exercise_list(rows) == [i \in 1..Len(rows) |-> rows[i].exercise]

\* frame[frame.exercise.isin(names)].diffucility
isin_difficulties(rows, names) ==
    LET Picked(r) == r.exercise \in names
        sel == SelectSeq(rows, Picked)
    IN  [i \in 1..Len(sel) |-> sel[i].diffucility]

\* a test that accepts every mean
mean_within_unchecked(values, d, t) == Len(values) > 0

\* abs(values.mean() - difficulty) <= tolerance; the mean of no value is NaN,
\* and every comparison with NaN is false
mean_within(values, d, t) ==
    Len(values) > 0 /\ Abs(2 * SumSeq(values) - Len(values) * d) <= Len(values) * t

----------------------------------------------------------------------------
(* get_exercises, workout.py 63-109 *)

\* an area check that lets every area through
area_known_always(d, a) == TRUE

\* line 83: area in self.df.area.unique()
area_known(d, a) == a \in Range(unique_areas(d))

\* a short-area result without the padding
padded_result_unpadded(rows, n) == exercise_list(rows)

\* line 91: local_df.exercise.tolist() + [""] * (exercise_amount - len(local_df))
padded_result(rows, n) == exercise_list(rows) \o Repeat("", n - Len(rows))

\* an exhaustion result that is the empty list
exhausted_result_empty(n) == << >>

\* line 109: [""] * exercise_amount
exhausted_result(n) == Repeat("", n)

\* lines 83-91: the area check, the filter and the short-area padding
GetExercisesCall ==
    /\ pc = "idle"
    /\ instance = "ready"
    /\ \E a \in AreaInputs, d \in Difficulties, n \in 0..MaxAmount, t \in Tolerances :
         /\ op' = "get_exercises"
         /\ area' = a
         /\ difficulty' = d
         /\ exercise_amount' = n
         /\ tolerance' = t
         /\ IF ~ area_known(df, a)
            THEN /\ pc' = "done"
                 /\ ret' = "raised"
                 /\ result' = << >>
            ELSE IF Len(local_df(df, a)) < n
            THEN /\ pc' = "done"
                 /\ ret' = "padded"
                 /\ result' = padded_result(local_df(df, a), n)
            ELSE /\ pc' = "ge_loop"
                 /\ ret' = "none"
                 /\ result' = << >>
    /\ attempt' = 0
    /\ draws' = 0
    /\ UNCHANGED << planVars, issueVars >>
    /\ UNCHANGED << df, total_exercises, more_abs, allocation >>

\* a loop that makes one more iteration
attempts_left_one_more(k) == k <= MaxAttempts

\* line 93: for attempt in range(1000), after k iterations
attempts_left(k) == k < MaxAttempts

\* lines 93-103: one iteration of the sampling loop
GetExercisesAttempt ==
    /\ pc = "ge_loop"
    /\ attempts_left(attempt)
    /\ LET local == local_df(df, area)
           names == exercise_list(local)
       IN  \E pick \in [1..exercise_amount -> 1..Len(names)] :
             LET exercises == [i \in 1..exercise_amount |-> names[pick[i]]]
                 unique_exercises == Range(exercises)
             IN  IF Cardinality(unique_exercises) < exercise_amount
                 THEN /\ attempt' = attempt + 1
                      /\ UNCHANGED << pc, ret, result >>
                 ELSE IF mean_within(isin_difficulties(local, unique_exercises),
                                     difficulty, tolerance)
                 THEN /\ pc' = "done"
                      /\ ret' = "accepted"
                      /\ result' = exercises
                      /\ UNCHANGED attempt
                 ELSE /\ attempt' = attempt + 1
                      /\ UNCHANGED << pc, ret, result >>
    /\ draws' = draws + 1
    /\ UNCHANGED << planVars, issueVars >>
    /\ UNCHANGED << df, op, area, difficulty, exercise_amount, tolerance,
                    total_exercises, more_abs, allocation >>

\* lines 105-109: the loop ran out
GetExercisesExhausted ==
    /\ pc = "ge_loop"
    /\ attempt = MaxAttempts
    /\ pc' = "done"
    /\ ret' = "exhausted"
    /\ result' = exhausted_result(exercise_amount)
    /\ UNCHANGED << planVars, issueVars >>
    /\ UNCHANGED << df, op, area, difficulty, exercise_amount, tolerance,
                    total_exercises, more_abs, attempt, draws, allocation >>

----------------------------------------------------------------------------
(* get_random_exercises_with_area_coverage, workout.py 111-178 *)

\* list(set(names)): the distinct names, in any order
Orderings(S) ==
    { o \in [1..Cardinality(S) -> S] : \A i, j \in 1..Cardinality(S) : i # j => o[i] # o[j] }

\* names[:n]
Take(names, n) == SubSeq(names, 1, IF n < Len(names) THEN n ELSE Len(names))

\* per-area draws that are not kept to the rows of the area
AreaDrawsAnyRow(d) == [1..Len(unique_areas(d)) -> 1..Len(d)]

\* lines 139-142 and 168-171: random.choice over the rows of each area, in the
\* order of the areas; a draw is the row index chosen for each area
AreaDraws(d) ==
    LET areas == unique_areas(d)
    IN  { rep \in [1..Len(areas) -> 1..Len(d)] : \A i \in 1..Len(areas) : d[rep[i]].area = areas[i] }

\* lines 145-149 and 173-176: random.choices over all rows for the remaining slots
FillDraws(d, remaining) ==
    IF remaining > 0 THEN [1..remaining -> 1..Len(d)] ELSE { << >> }

\* the names of a draw without those drawn per area
selected_exercises_fill_only(d, rep, fill) ==
    [i \in 1..Len(fill) |-> d[fill[i]].exercise]

\* the names of a draw: one per area, then the fill
selected_exercises(d, rep, fill) ==
    [i \in 1..Len(rep) |-> d[rep[i]].exercise] \o [i \in 1..Len(fill) |-> d[fill[i]].exercise]

\* the calls to the random generator one draw makes
DrawCalls(d, n) == Len(unique_areas(d)) + (IF n - Len(unique_areas(d)) > 0 THEN 1 ELSE 0)

\* a count check that is off by one
too_few_for_coverage_strict(d, n) == n <= Len(unique_areas(d))

\* line 132: exercise_amount < len(areas)
too_few_for_coverage(d, n) == n < Len(unique_areas(d))

\* lines 130-133: the count check
CoverageCall ==
    /\ pc = "idle"
    /\ instance = "ready"
    /\ \E d \in Difficulties, n \in 0..MaxCoverageAmount, t \in Tolerances :
         /\ op' = "coverage"
         /\ difficulty' = d
         /\ exercise_amount' = n
         /\ tolerance' = t
         /\ IF too_few_for_coverage(df, n)
            THEN /\ pc' = "done"
                 /\ ret' = "raised"
            ELSE /\ pc' = "cov_loop"
                 /\ ret' = "none"
    /\ area' = ""
    /\ result' = << >>
    /\ attempt' = 0
    /\ draws' = 0
    /\ UNCHANGED << planVars, issueVars >>
    /\ UNCHANGED << df, total_exercises, more_abs, allocation >>

\* a test of the distinct names that rejects nothing
too_few_unique_never(unique_exercises, n) == FALSE

\* lines 152-154: if len(unique_exercises) < exercise_amount: continue
too_few_unique(unique_exercises, n) == Cardinality(unique_exercises) < n

\* lines 135-160: one iteration of the sampling loop
CoverageAttempt ==
    /\ pc = "cov_loop"
    /\ attempt < MaxCoverageAttempts
    /\ \E rep \in AreaDraws(df) :
         \E fill \in FillDraws(df, exercise_amount - Len(rep)) :
           LET unique_exercises == Range(selected_exercises(df, rep, fill))
           IN  IF too_few_unique(unique_exercises, exercise_amount)
               THEN /\ attempt' = attempt + 1
                    /\ UNCHANGED << pc, ret, result >>
               ELSE IF mean_within(isin_difficulties(df, unique_exercises),
                                   difficulty, tolerance)
               THEN /\ pc' = "done"
                    /\ ret' = "accepted"
                    /\ \E o \in Orderings(unique_exercises) :
                         result' = Take(o, exercise_amount)
                    /\ UNCHANGED attempt
               ELSE /\ attempt' = attempt + 1
                    /\ UNCHANGED << pc, ret, result >>
    /\ draws' = draws + DrawCalls(df, exercise_amount)
    /\ UNCHANGED << planVars, issueVars >>
    /\ UNCHANGED << df, op, area, difficulty, exercise_amount, tolerance,
                    total_exercises, more_abs, allocation >>

\* lines 162-178: the loop ran out; the fallback draw, with no tolerance check
CoverageFallback ==
    /\ pc = "cov_loop"
    /\ attempt = MaxCoverageAttempts
    /\ \E rep \in AreaDraws(df) :
         \E fill \in FillDraws(df, exercise_amount - Len(rep)) :
           \E o \in Orderings(Range(selected_exercises(df, rep, fill))) :
             result' = Take(o, exercise_amount)
    /\ pc' = "done"
    /\ ret' = "fallback"
    /\ draws' = draws + DrawCalls(df, exercise_amount)
    /\ UNCHANGED << planVars, issueVars >>
    /\ UNCHANGED << df, op, area, difficulty, exercise_amount, tolerance,
                    total_exercises, more_abs, attempt, allocation >>

----------------------------------------------------------------------------
(* get_area_allocations, workout.py 180-221 *)

\* an index counted from the end of the list
IndexOfFromEnd(areas, a) == Len(areas) + 1 - (CHOOSE i \in 1..Len(areas) : areas[i] = a)

\* the index of an area in the list of areas
IndexOf(areas, a) == CHOOSE i \in 1..Len(areas) : areas[i] = a

\* the quotas when the pool is not reduced by the slot granted to "Abs"
get_area_allocations_full_pool(d, total, abs_bonus) ==
    LET areas == unique_areas(d)
        n == Len(areas)
        base_per_area == total \div n
        remainder == total % n
    IN  [a \in Range(areas) |->
           base_per_area + (IF abs_bonus /\ a = "Abs" THEN 1 ELSE 0)
                         + (IF IndexOf(areas, a) - 1 < remainder THEN 1 ELSE 0)]

\* the quotas when "Abs" is not granted its slot
get_area_allocations_no_bonus(d, total, abs_bonus) ==
    LET areas == unique_areas(d)
        n == Len(areas)
        pool == IF abs_bonus /\ "Abs" \in Range(areas) THEN total - 1 ELSE total
        base_per_area == pool \div n
        remainder == pool % n
    IN  [a \in Range(areas) |->
           base_per_area + (IF IndexOf(areas, a) - 1 < remainder THEN 1 ELSE 0)]

\* lines 197-221: the dict returned, as a function from area to quota.  // and %
\* are Python's floor division and modulus, as are \div and % here; enumerate
\* counts from 0
get_area_allocations(d, total, abs_bonus) ==
    LET areas == unique_areas(d)
        n == Len(areas)
    IN  IF abs_bonus /\ "Abs" \in Range(areas)
        THEN LET remaining_exercises == total - 1
                 base_per_area == remaining_exercises \div n
                 remainder == remaining_exercises % n
             IN  [a \in Range(areas) |->
                    IF a = "Abs"
                    THEN base_per_area + 1 + (IF IndexOf(areas, a) - 1 < remainder THEN 1 ELSE 0)
                    ELSE base_per_area + (IF IndexOf(areas, a) - 1 < remainder THEN 1 ELSE 0)]
        ELSE LET base_per_area == total \div n
                 remainder == total % n
             IN  [a \in Range(areas) |->
                    base_per_area + (IF IndexOf(areas, a) - 1 < remainder THEN 1 ELSE 0)]

GetAreaAllocations ==
    /\ pc = "idle"
    /\ instance = "ready"
    /\ \E total \in 0..MaxTotal, b \in BOOLEAN :
         /\ total_exercises' = total
         /\ more_abs' = b
         /\ allocation' = get_area_allocations(df, total, b)
    /\ op' = "allocations"
    /\ pc' = "done"
    /\ ret' = "allocated"
    /\ UNCHANGED << planVars, issueVars >>
    /\ UNCHANGED << df, area, difficulty, exercise_amount, tolerance, attempt, draws, result >>

----------------------------------------------------------------------------
(* Construction, workout.py 25-61 *)

\* line 54: required_columns
RequiredColumns == { "exercise", "area", "diffucility" }

\* the table with only the given columns
WithColumns(rows, columns) ==
    [columns |-> columns,
     rows |-> [i \in 1..Len(rows) |-> [c \in columns |-> rows[i][c]]]]

\* a validation that does not look at the rows
validate_dataframe_columns_only(table) ==
    RequiredColumns \subseteq table.columns

\* lines 54-61: _validate_dataframe passes
validate_dataframe(table) ==
    /\ RequiredColumns \subseteq table.columns
    /\ Len(table.rows) > 0

\* the state of the plan builder when no plan is being built
NoPlan ==
    /\ days = << >>
    /\ use_area_coverage = FALSE
    /\ custom_allocations = << >>
    /\ save_to_repo = FALSE
    /\ workout_df = << >>
    /\ information_rows = << >>
    /\ plan = [information |-> << >>, columns |-> << >>]
    /\ error = "none"
    /\ fell_back = FALSE
    /\ save_outcome = "none"
    /\ second_df = << >>

\* lines 39-41: WorkoutGenerator(dataframe)
Construct ==
    /\ instance = "none"
    /\ pc = "idle"
    /\ op' = "construct"
    /\ IF validate_dataframe(source)
       THEN /\ instance' = "ready"
            /\ df' = source.rows
            /\ ret' = "constructed"
            /\ error' = "none"
       ELSE /\ instance' = "failed"
            /\ ret' = "raised"
            /\ error' = "ValueError"
            /\ UNCHANGED df
    /\ UNCHANGED << pc, callVars, source, days, use_area_coverage, custom_allocations,
                    save_to_repo, workout_df, information_rows, plan, fell_back,
                    save_outcome, second_run, second_df >>
    /\ UNCHANGED issueVars

\* a catalog that shares the caller's table
copy_shares_table == TRUE

\* line 39: dataframe.copy() is a new table (a deep copy), not the caller's
copy_shares == FALSE

\* the caller's table after the caller changes it: the first row is dropped
MutatedRows(rows) == Tail(rows)

\* the caller changes its table after the construction
MutateSource ==
    /\ instance = "ready"
    /\ pc \in { "idle", "done" }
    /\ source.rows = df
    /\ source.rows # << >>
    /\ source' = [source EXCEPT !.rows = MutatedRows(source.rows)]
    /\ df' = IF copy_shares THEN MutatedRows(source.rows) ELSE df
    /\ UNCHANGED << pc, op, ret, callVars, instance, days, use_area_coverage,
                    custom_allocations, save_to_repo, workout_df, information_rows, plan,
                    error, fell_back, save_outcome, second_run, second_df >>
    /\ UNCHANGED issueVars

----------------------------------------------------------------------------
(* generate_workout_plan, workout.py 223-287 *)

\* the difficulty levels of the days, and the lists of levels a plan is asked for:
\* up to MaxDays distinct levels, in any order
Levels == { 3, 4, 5 }
DaysInputs ==
    { ds \in UNION { [1..n -> Levels] : n \in 0..MaxDays } :
        \A i, j \in 1..Len(ds) : i # j => ds[i] # ds[j] }

\* the explicit quotas a plan is asked for: none, quotas over known areas (a
\* quota of 0 among them), a quota for an area no catalog has
CustomAllocationsInputs ==
    { << >>, << << "Legs", 1 >>, << "Abs", 2 >> >>, << << "Legs", 2 >> >>,
      << << "Legs", 2 >>, << "Abs", 1 >> >>, << << "Abs", 1 >>, << "Legs", 0 >> >>,
      << << "NonExistent", 1 >> >> }

\* the steps of _save_workout_to_repo that can fail
SaveOutcomes == { "saved", "failed_root", "failed_mkdir", "failed_csv", "failed_latest_csv" }

\* lines 63-64 and 111-112: the default tolerance, 0.5, in halves
DefaultTolerance == 1

\* lines 248 and 267: sum([3 if area == 'Abs' else 2 for area in areas])
plan_total_exercises(d) ==
    LET areas == unique_areas(d)
    IN  SumSeq([i \in 1..Len(areas) |-> IF areas[i] = "Abs" THEN 3 ELSE 2])

\* lines 135-178 as one step: the sets of names a call of
\* get_random_exercises_with_area_coverage can select, each with the path that
\* selects it.  The attempts are independent draws, so the fallback is taken
\* exactly when some draw is rejected (it is then rejected 1000 times)
CoverageSelections(d, level, n, t) ==
    LET drawn == { selected_exercises(d, rep, fill) :
                     rep \in AreaDraws(d), fill \in FillDraws(d, n - Len(unique_areas(d))) }
        Accepted(sel) ==
            /\ ~ too_few_unique(Range(sel), n)
            /\ mean_within(isin_difficulties(d, Range(sel)), level, t)
    IN  { [path |-> "accepted", names |-> Range(sel)] : sel \in { x \in drawn : Accepted(x) } }
        \cup (IF \E x \in drawn : ~ Accepted(x)
              THEN { [path |-> "fallback", names |-> Range(sel)] : sel \in drawn }
              ELSE {})

\* lines 87-109 as one step: the lists a call of get_exercises on a known area
\* can return, each with the path that returns it
GetExercisesResults(d, a, level, n, t) ==
    LET local == local_df(d, a)
        names == exercise_list(local)
        drawn == { [i \in 1..n |-> names[pick[i]]] : pick \in [1..n -> 1..Len(names)] }
        Accepted(x) ==
            /\ Cardinality(Range(x)) >= n
            /\ mean_within(isin_difficulties(local, Range(x)), level, t)
    IN  IF Len(local) < n
        THEN { [path |-> "padded", names |-> padded_result(local, n)] }
        ELSE { [path |-> "accepted", names |-> x] : x \in { y \in drawn : Accepted(y) } }
             \cup (IF \E x \in drawn : ~ Accepted(x)
                   THEN { [path |-> "exhausted", names |-> exhausted_result(n)] }
                   ELSE {})

\* lines 264-268: the quotas of the day, as the items of the dict in order
DayAllocations(d, custom) ==
    IF custom # << >>
    THEN custom
    ELSE LET areas == unique_areas(d)
             quota == get_area_allocations(d, plan_total_exercises(d), TRUE)
         IN  [i \in 1..Len(areas) |-> << areas[i], quota[areas[i]] >>]

\* lines 270-272: the concatenated results of get_exercises over the quotas
RECURSIVE QuotaDayResults(_, _, _)
QuotaDayResults(d, items, level) ==
    IF items = << >>
    THEN { [fell |-> FALSE, names |-> << >>] }
    ELSE { [fell |-> r.path = "exhausted" \/ rest.fell, names |-> r.names \o rest.names] :
             r \in GetExercisesResults(d, Head(items)[1], level, Head(items)[2], DefaultTolerance),
             rest \in QuotaDayResults(d, Tail(items), level) }

\* line 257: the area of the first row of that name, 'Unknown' when there is none
exercise_area(d, name) ==
    IF \E i \in 1..Len(d) : d[i].exercise = name
    THEN d[CHOOSE i \in 1..Len(d) :
             /\ d[i].exercise = name
             /\ \A j \in 1..(i - 1) : d[j].exercise # name].area
    ELSE "Unknown"

\* lines 255-258: the labels of coverage mode
coverage_information_rows(d, exercises) ==
    << "mean" >> \o [i \in 1..Len(exercises) |-> exercise_area(d, exercises[i])]

\* line 274: the labels of quota mode
RECURSIVE QuotaLabels(_)
QuotaLabels(items) ==
    IF items = << >> THEN << >>
    ELSE Repeat(Head(items)[1], Head(items)[2]) \o QuotaLabels(Tail(items))

\* the labels of the quotas in the opposite order
quota_information_rows_reversed(items) ==
    << "mean" >> \o [i \in 1..Len(QuotaLabels(items)) |->
                      QuotaLabels(items)[Len(QuotaLabels(items)) + 1 - i]]

quota_information_rows(items) == << "mean" >> \o QuotaLabels(items)

\* lines 341-361: _calculate_mean_difficulty, the mean as << sum, count >>
\* (0.0 is << 0, 1 >>)
calculate_mean_difficulty(d, exercises) ==
    LET valid_exercises == { exercises[i] : i \in { j \in 1..Len(exercises) : exercises[j] # "" } }
        exercise_difficulties == isin_difficulties(d, valid_exercises)
    IN  IF valid_exercises = {}
        THEN << 0, 1 >>
        ELSE IF Len(exercise_difficulties) = 0
             THEN << 0, 1 >>
             ELSE << SumSeq(exercise_difficulties), Len(exercise_difficulties) >>

\* a column assignment that takes any length
column_fits_any(frame, values) == TRUE

\* line 279: workout_df[day] = values.  The first column sets the index of the
\* empty frame; a later one of another length raises ValueError
column_fits(frame, values) ==
    frame = << >> \/ Len(frame[1].exercises) = Len(values)

\* lines 276-277: the column of a day
DayColumn(d, level, exercises) ==
    [day |-> level, mean |-> calculate_mean_difficulty(d, exercises), exercises |-> exercises]

\* a mode test that does not look at the explicit quotas
coverage_mode_whenever_asked(coverage, custom) == coverage

\* line 246: if use_area_coverage and not custom_allocations
coverage_mode(coverage, custom) == coverage /\ custom = << >>

\* lines 246-274: what the allocator calls of one day can give: the exercises,
\* those of a second run fed the same draws, the labels, and whether a call
\* ran out of attempts
DayOutcomes(d, level, coverage, custom, twice) ==
    IF coverage_mode(coverage, custom)
    THEN UNION { { [exercises |-> Take(o, plan_total_exercises(d)),
                    second |-> Take(o2, plan_total_exercises(d)),
                    information |-> coverage_information_rows(d, Take(o, plan_total_exercises(d))),
                    fell |-> sel.path = "fallback"] :
                     o \in Orderings(sel.names),
                     o2 \in (IF twice THEN Orderings(sel.names) ELSE { << >> }) } :
                 sel \in CoverageSelections(d, 2 * level, plan_total_exercises(d),
                                            DefaultTolerance) }
    ELSE { [exercises |-> r.names,
            second |-> IF twice THEN r.names ELSE << >>,
            information |-> quota_information_rows(DayAllocations(d, custom)),
            fell |-> r.fell] :
             r \in QuotaDayResults(d, DayAllocations(d, custom), 2 * level) }

\* lines 83-85 reached from line 271: a quota names an area the catalog lacks
QuotaAreaUnknown(d, coverage, custom) ==
    /\ ~ coverage_mode(coverage, custom)
    /\ \E i \in 1..Len(DayAllocations(d, custom)) : ~ area_known(d, DayAllocations(d, custom)[i][1])

\* line 243: the entry of generate_workout_plan
StartPlan(ds, coverage, custom, save) ==
    /\ days' = ds
    /\ use_area_coverage' = coverage
    /\ custom_allocations' = custom
    /\ save_to_repo' = save
    /\ workout_df' = << >>
    /\ second_df' = << >>
    /\ information_rows' = << >>
    /\ plan' = [information |-> << >>, columns |-> << >>]
    /\ fell_back' = FALSE
    /\ save_outcome' = "none"
    /\ pc' = "plan_loop"
    /\ ret' = "none"
    /\ error' = "none"

GenerateWorkoutPlanCall ==
    /\ pc = "idle"
    /\ instance = "ready"
    /\ op' = "generate_workout_plan"
    /\ \E ds \in DaysInputs, coverage \in BOOLEAN, custom \in CustomAllocationsInputs,
          save \in BOOLEAN :
         StartPlan(ds, coverage, custom, save)
    /\ UNCHANGED << df, callVars, instance, source, second_run >>
    /\ UNCHANGED issueVars

\* lines 466-509: create_workout_from_dataframe(df, days, use_area_coverage=...)
CreateWorkoutFromDataframe ==
    /\ pc = "idle"
    /\ instance = "none"
    /\ op' = "create_workout_from_dataframe"
    /\ IF validate_dataframe(source)
       THEN /\ instance' = "ready"
            /\ df' = source.rows
            /\ \E ds \in DaysInputs, coverage \in BOOLEAN :
                 StartPlan(ds, coverage, << >>, TRUE)
       ELSE /\ instance' = "failed"
            /\ ret' = "raised"
            /\ error' = "ValueError"
            /\ pc' = "done"
            /\ UNCHANGED << df, days, use_area_coverage, custom_allocations, save_to_repo,
                            workout_df, second_df, information_rows, plan, fell_back,
                            save_outcome >>
    /\ UNCHANGED << callVars, source, second_run >>
    /\ UNCHANGED issueVars

\* lines 245-279: one iteration of the loop over the days
GenerateWorkoutPlanDay ==
    /\ pc = "plan_loop"
    /\ Len(workout_df) < Len(days)
    /\ LET level == days[Len(workout_df) + 1]
       IN  IF QuotaAreaUnknown(df, use_area_coverage, custom_allocations)
           THEN /\ pc' = "done"
                /\ ret' = "raised"
                /\ error' = "ValueError"
                /\ UNCHANGED << workout_df, second_df, information_rows, fell_back >>
           ELSE \E out \in DayOutcomes(df, level, use_area_coverage, custom_allocations,
                                       second_run) :
                  /\ information_rows' = out.information
                  /\ fell_back' = (fell_back \/ out.fell)
                  /\ IF column_fits(workout_df, out.exercises)
                     THEN /\ workout_df' = Append(workout_df, DayColumn(df, level, out.exercises))
                          /\ second_df' = IF second_run
                                          THEN Append(second_df, DayColumn(df, level, out.second))
                                          ELSE second_df
                          /\ UNCHANGED << pc, ret, error >>
                     ELSE /\ pc' = "done"
                          /\ ret' = "raised"
                          /\ error' = "ValueError"
                          /\ UNCHANGED << workout_df, second_df >>
    /\ UNCHANGED << df, op, callVars, instance, source, days, use_area_coverage,
                    custom_allocations, save_to_repo, plan, save_outcome, second_run >>
    /\ UNCHANGED issueVars

\* labels that are bound before the loop
information_rows_unbound_never(rows) == FALSE

\* line 281 reads information_rows, which is bound inside the loop only
\* (lines 254 and 274): with no iteration the name is unbound
information_rows_unbound(rows) == rows = << >>

\* line 281: workout_df['information'] = information_rows, after the loop
GenerateWorkoutPlanLabel ==
    /\ pc = "plan_loop"
    /\ Len(workout_df) = Len(days)
    /\ IF information_rows_unbound(information_rows)
       THEN /\ pc' = "done"
            /\ ret' = "raised"
            /\ error' = "UnboundLocalError"
       ELSE IF ~ column_fits(workout_df, Tail(information_rows))
       THEN /\ pc' = "done"
            /\ ret' = "raised"
            /\ error' = "ValueError"
       ELSE /\ pc' = "plan_save"
            /\ UNCHANGED << ret, error >>
    /\ UNCHANGED << df, op, callVars, instance, source, days, use_area_coverage,
                    custom_allocations, save_to_repo, workout_df, second_df, information_rows,
                    plan, fell_back, save_outcome, second_run >>
    /\ UNCHANGED issueVars

\* a persistence whose failure reaches the caller
save_raises_on_failure(outcome) == outcome # "saved"

\* lines 304 and 336-339: every exception of _save_workout_to_repo is caught
save_raises(outcome) == FALSE

\* lines 283-287: the optional save, and the return of the plan
GenerateWorkoutPlanReturn ==
    /\ pc = "plan_save"
    /\ \E outcome \in (IF save_to_repo THEN SaveOutcomes ELSE { "none" }) :
         /\ save_outcome' = outcome
         /\ IF save_raises(outcome)
            THEN /\ ret' = "raised"
                 /\ error' = "OSError"
                 /\ UNCHANGED plan
            ELSE /\ ret' = "returned"
                 /\ plan' = [information |-> information_rows, columns |-> workout_df]
                 /\ UNCHANGED error
    /\ pc' = "done"
    /\ UNCHANGED << df, op, callVars, instance, source, days, use_area_coverage,
                    custom_allocations, save_to_repo, workout_df, second_df, information_rows,
                    fell_back, second_run >>
    /\ UNCHANGED issueVars

----------------------------------------------------------------------------
(* smart_issue, issue_logger.py 317-377 *)

\* argument values of smart_issue
Titles == { "Bug", "Crash report" }
Priorities == { "low", "medium", "high", "critical" }

\* what get_github_token can give: a token, None, or an exception
TokenOutcomes == { "token", "none", "raised" }

\* what create_github_issue can give: a result with success True (status 201),
\* a result with success False, or an exception (of requests.post)
GithubOutcomes == { "success", "failure", "raised" }

\* what store_issue_locally can give: its try/except returns success True or False
LocalOutcomes == { "stored", "failed" }

NoResult == [success |-> FALSE, storage_type |-> "none", title |-> ""]

\* the state when smart_issue has not been called
NoIssue ==
    /\ title = ""
    /\ priority = ""
    /\ force_local = FALSE
    /\ github_token = "unknown"
    /\ github = "not_attempted"
    /\ local_store = "not_attempted"
    /\ contacts = << >>
    /\ issue_result = NoResult

\* lines 340-343: the entry, and the branch on force_local
SmartIssueCall ==
    /\ pc = "idle"
    /\ op = "none"
    /\ op' = "smart_issue"
    /\ \E t \in Titles, p \in Priorities, f \in BOOLEAN :
         /\ title' = t
         /\ priority' = p
         /\ force_local' = f
         /\ pc' = IF f THEN "issue_local" ELSE "issue_token"
    /\ UNCHANGED << df, ret, callVars, planVars, github_token, github, local_store, contacts,
                    issue_result >>

\* lines 345-349 and 357-362: get_github_token(), the test of the token, and
\* the handler of an exception
SmartIssueToken ==
    /\ pc = "issue_token"
    /\ \E outcome \in TokenOutcomes :
         /\ github_token' = outcome
         /\ pc' = IF outcome = "token" THEN "issue_github" ELSE "issue_local"
    /\ UNCHANGED << df, op, ret, callVars, planVars, title, priority, force_local, github,
                    local_store, contacts, issue_result >>

\* a result that is returned whether or not it reports success
github_result_returned_always(outcome) == TRUE

\* line 352: if result.get("success"): return result
github_result_returned(outcome) == outcome = "success"

\* lines 350-356 and 360-362: create_github_issue(...), the return of a
\* success, the fall through to local storage otherwise
SmartIssueGithub ==
    /\ pc = "issue_github"
    /\ \E outcome \in GithubOutcomes :
         /\ github' = outcome
         /\ contacts' = Append(contacts, "github")
         /\ IF github_result_returned(outcome)
            THEN /\ pc' = "done"
                 /\ ret' = "returned"
                 /\ issue_result' = [success |-> outcome = "success",
                                     storage_type |-> "github", title |-> title]
            ELSE /\ pc' = "issue_local"
                 /\ UNCHANGED << ret, issue_result >>
    /\ UNCHANGED << df, op, callVars, planVars, title, priority, force_local, github_token,
                    local_store >>

\* lines 342-343 and 364-372 with local_issue_store.py 52-122:
\* store_issue_locally(...) and the return of its result
SmartIssueLocal ==
    /\ pc = "issue_local"
    /\ \E outcome \in LocalOutcomes :
         /\ local_store' = outcome
         /\ contacts' = Append(contacts, "local")
         /\ issue_result' = [success |-> outcome = "stored", storage_type |-> "local",
                             title |-> IF outcome = "stored" THEN title ELSE ""]
    /\ pc' = "done"
    /\ ret' = "returned"
    /\ UNCHANGED << df, op, callVars, planVars, title, priority, force_local, github_token,
                    github >>

----------------------------------------------------------------------------
(* Specifications *)

\* the state after WorkoutGenerator(dataframe), for a catalog of the given set
Constructed(catalogs) ==
    /\ df \in catalogs
    /\ pc = "idle"
    /\ op = "none"
    /\ area = ""
    /\ difficulty = 0
    /\ exercise_amount = 0
    /\ tolerance = 0
    /\ total_exercises = 0
    /\ more_abs = FALSE
    /\ attempt = 0
    /\ draws = 0
    /\ ret = "none"
    /\ result = << >>
    /\ allocation = << >>
    /\ instance = "ready"
    /\ source = [columns |-> RequiredColumns, rows |-> df]
    /\ NoPlan
    /\ NoIssue
    /\ second_run = FALSE

Init == Constructed(Catalogs)

\* one call of get_exercises
NextGetExercises ==
    \/ GetExercisesCall
    \/ GetExercisesAttempt
    \/ GetExercisesExhausted

SpecGetExercises == Init /\ [][NextGetExercises]_vars

\* one call of get_random_exercises_with_area_coverage
NextCoverage ==
    \/ CoverageCall
    \/ CoverageAttempt
    \/ CoverageFallback

SpecCoverage == Init /\ [][NextCoverage]_vars

\* one call of get_area_allocations
InitAllocations == Constructed(AllocationCatalogs \cup Catalogs)

NextAllocations == GetAreaAllocations

SpecAllocations == InitAllocations /\ [][NextAllocations]_vars

\* the tables a generator is constructed from: the plan catalogs, the same
\* without some of the columns, and tables without rows
SourceTables ==
    { WithColumns(c, cols) : c \in PlanCatalogs \cup { << >> }, cols \in SUBSET RequiredColumns }

\* the state before WorkoutGenerator(dataframe), for a table of the given set
Unconstructed(tables, twice) ==
    /\ source \in tables
    /\ instance = "none"
    /\ df = << >>
    /\ pc = "idle"
    /\ op = "none"
    /\ area = ""
    /\ difficulty = 0
    /\ exercise_amount = 0
    /\ tolerance = 0
    /\ total_exercises = 0
    /\ more_abs = FALSE
    /\ attempt = 0
    /\ draws = 0
    /\ ret = "none"
    /\ result = << >>
    /\ allocation = << >>
    /\ NoPlan
    /\ NoIssue
    /\ second_run = twice

InitPlan == Unconstructed(SourceTables, FALSE)

\* a construction, then one call of generate_workout_plan, or one call of
\* create_workout_from_dataframe
NextPlan ==
    \/ Construct
    \/ GenerateWorkoutPlanCall
    \/ CreateWorkoutFromDataframe
    \/ GenerateWorkoutPlanDay
    \/ GenerateWorkoutPlanLabel
    \/ GenerateWorkoutPlanReturn

SpecPlan == InitPlan /\ [][NextPlan]_vars

\* the tables of the generators whose whole lifetime is followed
LifetimeTables ==
    { WithColumns(c, cols) : c \in { SingleCatalog, LegsCatalog, << >> },
                             cols \in SUBSET RequiredColumns }

InitLifetime == Unconstructed(LifetimeTables, FALSE)

\* a call has returned or raised and the caller goes on to its next call; the
\* locals of the call are gone, the generator stays
NextCall ==
    /\ pc = "done"
    /\ instance = "ready"
    /\ pc' = "idle"
    /\ op' = "none"
    /\ ret' = "none"
    /\ area' = ""
    /\ difficulty' = 0
    /\ exercise_amount' = 0
    /\ tolerance' = 0
    /\ total_exercises' = 0
    /\ more_abs' = FALSE
    /\ attempt' = 0
    /\ draws' = 0
    /\ result' = << >>
    /\ allocation' = << >>
    /\ days' = << >>
    /\ use_area_coverage' = FALSE
    /\ custom_allocations' = << >>
    /\ save_to_repo' = FALSE
    /\ workout_df' = << >>
    /\ information_rows' = << >>
    /\ plan' = [information |-> << >>, columns |-> << >>]
    /\ error' = "none"
    /\ fell_back' = FALSE
    /\ save_outcome' = "none"
    /\ second_df' = << >>
    /\ UNCHANGED << df, instance, source, second_run >>
    /\ UNCHANGED issueVars

\* a construction, then any sequence of calls of the four operations, the
\* caller changing its own table at any point between them
NextLifetime ==
    \/ Construct
    \/ MutateSource
    \/ GetExercisesCall
    \/ GetExercisesAttempt
    \/ GetExercisesExhausted
    \/ CoverageCall
    \/ CoverageAttempt
    \/ CoverageFallback
    \/ GetAreaAllocations
    \/ GenerateWorkoutPlanCall
    \/ GenerateWorkoutPlanDay
    \/ GenerateWorkoutPlanLabel
    \/ GenerateWorkoutPlanReturn
    \/ NextCall

SpecLifetime == InitLifetime /\ [][NextLifetime]_vars

\* a call of smart_issue; it needs no generator
InitIssue == Unconstructed({ WithColumns(<< >>, {}) }, FALSE)

NextIssue ==
    \/ SmartIssueCall
    \/ SmartIssueToken
    \/ SmartIssueGithub
    \/ SmartIssueLocal

SpecIssue == InitIssue /\ [][NextIssue]_vars

\* the tables of the generators that build every plan twice
TwoRunsTables ==
    { WithColumns(c, cols) : c \in { SingleCatalog, LegsCatalog, DupCatalog },
                             cols \in SUBSET RequiredColumns }

\* every call of generate_workout_plan is run a second time, in another
\* interpreter process, on the same catalog, with the same arguments and the
\* same sequence of random draws
InitTwoRuns == Unconstructed(TwoRunsTables, TRUE)

SpecTwoRuns == InitTwoRuns /\ [][NextPlan]_vars

----------------------------------------------------------------------------
(* Properties of get_exercises, under SpecGetExercises *)

AllPlaceholders(names) == \A i \in 1..Len(names) : names[i] = ""

PairwiseDistinct(names) == \A i, j \in 1..Len(names) : i # j => names[i] # names[j]

\* the difficulty the catalog gives a name: that of the first row of that name
DifficultyOf(rows, name) ==
    rows[CHOOSE i \in 1..Len(rows) :
            /\ rows[i].exercise = name
            /\ \A j \in 1..(i - 1) : rows[j].exercise # name].diffucility

\* the mean difficulty of the names, each counted once, is within t of d
NamesMeanWithin(rows, names, d, t) ==
    LET values == [i \in 1..Len(names) |-> DifficultyOf(rows, names[i])]
    IN  Len(names) > 0 /\ Abs(2 * SumSeq(values) - Len(names) * d) <= Len(names) * t

\* a call of get_exercises has returned or raised
GetExercisesDone == op = "get_exercises" /\ pc = "done"

\* C1: whenever get_exercises, called with a count that is at most the number
\* of records of the area, returns a result that is not made of placeholders,
\* the result has exactly `count` entries, they are pairwise distinct names of
\* the catalog, and the mean difficulty of the selected names, each counted
\* once, is within the tolerance of the target.
C1_SelectionMeetsTarget ==
    ( /\ GetExercisesDone
      /\ ret # "raised"
      /\ exercise_amount <= Len(local_df(df, area))
      /\ ~ AllPlaceholders(result) )
    => /\ Len(result) = exercise_amount
       /\ PairwiseDistinct(result)
       /\ Range(result) \subseteq Range(exercise_list(local_df(df, area)))
       /\ NamesMeanWithin(local_df(df, area), result, difficulty, tolerance)

\* C2: for a known area and a count greater than the number of records of the
\* area, get_exercises returns, without raising and without a single draw or
\* sampling attempt, exactly `count` entries: the names of the area, in catalog
\* order, followed by count - available empty-string placeholders.
C2_ShortAreaIsPadded ==
    ( /\ op = "get_exercises"
      /\ area_known(df, area)
      /\ exercise_amount > Len(local_df(df, area)) )
    => /\ pc = "done"
       /\ ret = "padded"
       /\ draws = 0
       /\ attempt = 0
       /\ Len(result) = exercise_amount
       /\ SubSeq(result, 1, Len(local_df(df, area))) = exercise_list(local_df(df, area))
       /\ \A i \in (Len(local_df(df, area)) + 1)..exercise_amount : result[i] = ""

C2_Witness ==
    /\ op = "get_exercises"
    /\ ret = "padded"
    /\ Len(local_df(df, area)) = 2
    /\ exercise_amount = 3
    /\ result[3] = ""

\* C3: get_exercises called with an area that is not an area of the catalog
\* raises (ValueError), for every count, target and tolerance, before any
\* random draw and without returning a list.
C3_UnknownAreaRaises ==
    ( /\ op = "get_exercises"
      /\ area \notin { df[i].area : i \in 1..Len(df) } )
    => /\ pc = "done"
       /\ ret = "raised"
       /\ draws = 0
       /\ attempt = 0
       /\ result = << >>

C3_Witness ==
    /\ op = "get_exercises"
    /\ area = "NonExistent"
    /\ exercise_amount = 2
    /\ ret = "raised"

\* C4: when the count is at most the number of records of the area and each of
\* the 1000 sampling attempts was rejected, get_exercises returns exactly
\* `count` empty-string placeholders and does not raise.
C4_ExhaustionReturnsPlaceholders ==
    ( /\ GetExercisesDone
      /\ exercise_amount <= Len(local_df(df, area))
      /\ attempt = MaxAttempts )
    => /\ ret = "exhausted"
       /\ Len(result) = exercise_amount
       /\ AllPlaceholders(result)

C4_Witness ==
    /\ GetExercisesDone
    /\ attempt = MaxAttempts
    /\ exercise_amount = 2
    /\ result = << "", "" >>

\* the scenario of C5: get_exercises('Legs', 4.0, 2, 0.5) on the catalog
\* [(A,Legs,3),(B,Legs,5),(C,Abs,2),(D,Abs,4)] has returned
C5_Scenario ==
    /\ GetExercisesDone
    /\ df = SpecCatalog
    /\ area = "Legs"
    /\ difficulty = 8
    /\ exercise_amount = 2
    /\ tolerance = 1

\* C5 as stated: in the scenario the call returns the two names A and B, in
\* some order, for every sequence of random draws.
C5_AlwaysReturnsAB ==
    C5_Scenario => result \in { << "A", "B" >>, << "B", "A" >> }

\* C5, amended: in the scenario the call returns the two names A and B, in some
\* order, unless every one of the 1000 draws repeated a name, in which case it
\* returns two empty-string placeholders.
C5_ReturnsABOrExhausts ==
    C5_Scenario =>
        \/ ret = "accepted" /\ result \in { << "A", "B" >>, << "B", "A" >> }
        \/ ret = "exhausted" /\ attempt = MaxAttempts /\ result = << "", "" >>

C5_Witness ==
    /\ C5_Scenario
    /\ ret = "accepted"
    /\ result = << "B", "A" >>
    /\ attempt > 0

----------------------------------------------------------------------------
(* Properties of get_area_allocations, under SpecAllocations *)

\* sum(allocation.values())
TotalAllocated ==
    LET areas == unique_areas(df)
    IN  SumSeq([i \in 1..Len(areas) |-> allocation[areas[i]]])

\* C6: for every catalog, every total_exercises >= 0 and both values of
\* more_abs, the quotas returned by get_area_allocations have exactly one entry
\* per area of the catalog and sum exactly to total_exercises.
C6_QuotasSumToTotal ==
    op = "allocations"
    => /\ DOMAIN allocation = { df[i].area : i \in 1..Len(df) }
       /\ TotalAllocated = total_exercises

C6_Witness ==
    /\ op = "allocations"
    /\ more_abs
    /\ unique_areas(df) = << "Abs", "Legs", "Upper" >>
    /\ total_exercises = 7
    /\ allocation["Abs"] = 3

\* C7: for every catalog with the area 'Abs', wherever 'Abs' stands in the order
\* of the areas, and every total_exercises, get_area_allocations with
\* more_abs=True gives 'Abs' a quota at least that of every other area.
C7_AbsQuotaIsLargest ==
    ( /\ op = "allocations"
      /\ more_abs
      /\ \E i \in 1..Len(df) : df[i].area = "Abs" )
    => \A a \in DOMAIN allocation : allocation["Abs"] >= allocation[a]

\* 'Abs' is the last of three areas and the remainder goes to the two before it
C7_Witness ==
    /\ op = "allocations"
    /\ more_abs
    /\ unique_areas(df) = << "Legs", "Upper", "Abs" >>
    /\ total_exercises = 9
    /\ allocation["Abs"] = allocation["Legs"]

----------------------------------------------------------------------------
(* Properties of get_random_exercises_with_area_coverage, under SpecCoverage *)

\* the number of distinct areas of the catalog
NumAreas == Cardinality({ df[i].area : i \in 1..Len(df) })

\* C8: get_random_exercises_with_area_coverage called with an exercise_amount
\* smaller than the number of distinct areas raises (ValueError) before any
\* random draw; with exercise_amount >= the number of areas it does not raise.
C8_CountBelowAreasRaises ==
    op = "coverage"
    => /\ exercise_amount < NumAreas
          => pc = "done" /\ ret = "raised" /\ draws = 0 /\ attempt = 0 /\ result = << >>
       /\ exercise_amount >= NumAreas => ret # "raised"

C8_Witness ==
    /\ op = "coverage"
    /\ NumAreas = 3
    /\ exercise_amount = 2
    /\ ret = "raised"

\* C9: every result returned from an accepted attempt of
\* get_random_exercises_with_area_coverage contains, for each area of the
\* catalog, at least one exercise name that belongs to that area.
C9_AcceptedCoversEveryArea ==
    ( op = "coverage" /\ ret = "accepted" )
    => \A a \in { df[i].area : i \in 1..Len(df) } :
         \E k \in 1..Len(result) :
           \E i \in 1..Len(df) : df[i].area = a /\ df[i].exercise = result[k]

\* an accepted result over two areas, its third name drawn from the whole catalog
C9_Witness ==
    /\ op = "coverage"
    /\ ret = "accepted"
    /\ NumAreas = 2
    /\ Len(result) = 3

\* C10: every result returned from an accepted attempt of
\* get_random_exercises_with_area_coverage has exactly exercise_amount entries,
\* they are pairwise distinct names of the catalog, and the mean difficulty
\* over the selected set is within the tolerance of the target (the boundary
\* |mean - target| = tolerance included).
C10_AcceptedMeetsTarget ==
    ( op = "coverage" /\ ret = "accepted" )
    => /\ Len(result) = exercise_amount
       /\ PairwiseDistinct(result)
       /\ Range(result) \subseteq Range(exercise_list(df))
       /\ NamesMeanWithin(df, result, difficulty, tolerance)

\* C11: the coverage allocator always returns a list of exactly
\* exercise_amount entries, on the accepted path and on the fallback path alike.
C11_ResultHasRequestedLength ==
    ( op = "coverage" /\ ret \in { "accepted", "fallback" } )
    => Len(result) = exercise_amount

\* a call of generate_workout_plan, made directly or by
\* create_workout_from_dataframe, has returned its plan
PlanReturned ==
    /\ op \in { "generate_workout_plan", "create_workout_from_dataframe" }
    /\ pc = "done"
    /\ ret = "returned"

\* every area of the explicit quotas is an area of the catalog
QuotaAreasKnown ==
    \A i \in 1..Len(custom_allocations) : area_known(df, custom_allocations[i][1])

\* C12: for structurally valid input (a constructed generator, known areas in
\* the explicit quotas, a non-empty list of levels) generate_workout_plan does
\* not raise: for every sequence of draws, in coverage mode and in quota mode,
\* it returns a plan.
C12_ValidInputNeverRaises ==
    ( /\ op = "generate_workout_plan"
      /\ pc = "done"
      /\ days # << >>
      /\ QuotaAreasKnown )
    => ret = "returned"

NonPlaceholders(exercises) == SelectSeq(exercises, LAMBDA ex : ex # "")

\* the mean << sum, count >> is the mean difficulty of the entries, each
\* counted once, and 0 when there is none
IsMeanOfEntries(rows, mean, exercises) ==
    LET entries == NonPlaceholders(exercises)
        values == [i \in 1..Len(entries) |-> DifficultyOf(rows, entries[i])]
    IN  IF entries = << >>
        THEN mean[1] = 0
        ELSE mean[1] * Len(entries) = SumSeq(values) * mean[2]

\* C14: in every returned plan, the first ('mean') row of every difficulty
\* column equals the mean difficulty of the column's non-placeholder entries,
\* each entry counted once, and 0 when the column has no such entry.
C14_MeanRowIsMeanOfEntries ==
    PlanReturned
    => \A i \in 1..Len(plan.columns) :
         IsMeanOfEntries(df, plan.columns[i].mean, plan.columns[i].exercises)

\* C15: in every returned plan the first information label is 'mean', and for
\* every difficulty column and every later row the label of the row is the
\* area of the exercise the column holds in that row ('Unknown' when the entry
\* matches no catalog name), in coverage mode over several levels as well as
\* in quota mode.
C15_LabelsAreAreasOfEntries ==
    PlanReturned
    => /\ plan.information[1] = "mean"
       /\ \A i \in 1..Len(plan.columns) :
            \A k \in 1..Len(plan.columns[i].exercises) :
              plan.information[k + 1] = exercise_area(df, plan.columns[i].exercises[k])

\* C16: constructing a WorkoutGenerator raises ValueError when the table lacks
\* any of the columns exercise, area, diffucility, and when it has them but no
\* rows; construction from a non-empty table with the three columns succeeds;
\* after a failed construction there is no generator, so no operation runs.
C16_ConstructionValidatesTable ==
    [][ /\ ( instance = "none" /\ instance' # "none" )
           => IF /\ { "exercise", "area", "diffucility" } \subseteq source.columns
                 /\ Len(source.rows) > 0
              THEN instance' = "ready" /\ df' = source.rows /\ error' = "none"
              ELSE instance' = "failed" /\ ret' = "raised" /\ error' = "ValueError"
        /\ instance = "failed" => UNCHANGED vars ]_vars

\* a construction from a table that has the three columns and no rows has failed
C16_Witness ==
    /\ instance = "failed"
    /\ error = "ValueError"
    /\ source.columns = { "exercise", "area", "diffucility" }
    /\ source.rows = << >>

\* C17: the catalog of a generator is a private copy taken at construction and
\* read-only afterwards: no step of get_exercises,
\* get_random_exercises_with_area_coverage, get_area_allocations or
\* generate_workout_plan changes it, and neither does a change the caller makes
\* to the source table after construction.
C17_CatalogIsPrivateAndReadOnly ==
    [][ instance = "ready" => ( instance' = "ready" /\ df' = df ) ]_vars

\* a plan was returned by a generator whose source table was changed after
\* construction
C17_Witness ==
    /\ instance = "ready"
    /\ source.rows # df
    /\ op = "generate_workout_plan"
    /\ ret = "returned"

\* C18: with save_to_repo enabled, a failure at any step of persisting the plan
\* (locating the repository root, creating the data directory, writing either
\* CSV file) is not raised to the caller of generate_workout_plan, and the plan
\* returned is the plan returned when persistence succeeds or is disabled: the
\* table built by the loop, whatever the outcome of the save.
C18_SaveFailureIsSwallowed ==
    [][ pc = "plan_save"
        => /\ ret' = "returned"
           /\ error' = "none"
           /\ plan' = [information |-> information_rows, columns |-> workout_df] ]_vars

\* a plan was returned although writing the CSV file failed
C18_Witness ==
    /\ PlanReturned
    /\ save_to_repo
    /\ save_outcome = "failed_csv"
    /\ plan.columns # << >>

\* C19: generate_workout_plan is a deterministic function of its inputs and of
\* the sequence of random draws: two runs with the same catalog, the same
\* arguments and the same draws return identical plans, the same rows in the
\* same order.
C19_SameDrawsSamePlan ==
    ( second_run /\ PlanReturned ) => second_df = plan.columns

\* the names of the difficulty columns of the returned table, in order
PlanColumnNames == [i \in 1..Len(plan.columns) |-> plan.columns[i].day]

\* C20: for every valid catalog and every non-empty list of distinct levels,
\* generate_workout_plan with use_area_coverage=False and
\* create_workout_from_dataframe in its default coverage mode both return a
\* table whose columns are 'information' followed by one column per requested
\* level, for every sequence of draws.
C20_BothEntryPointsReturnPlan ==
    ( /\ pc = "done"
      /\ instance = "ready"
      /\ days # << >>
      /\ custom_allocations = << >>
      /\ \/ op = "generate_workout_plan" /\ ~ use_area_coverage
         \/ op = "create_workout_from_dataframe" /\ use_area_coverage )
    => /\ ret = "returned"
       /\ plan.information # << >>
       /\ PlanColumnNames = days

\* a call of smart_issue has returned
SmartIssueDone == op = "smart_issue" /\ pc = "done"

\* C21: smart_issue tries GitHub first and falls back to local storage.  With
\* force_local false and a token available, GitHub creation is attempted
\* before any local store; local storage is attempted exactly when GitHub
\* creation was not attempted, returned a non-success result, or raised; when
\* GitHub creation succeeds nothing is stored locally; with force_local true
\* GitHub is never contacted and the issue is stored locally.
C21_GithubFirstThenLocal ==
    op = "smart_issue"
    => /\ contacts \in { << >>, << "github" >>, << "local" >>, << "github", "local" >> }
       /\ ( ~ force_local /\ github_token = "token" /\ pc \in { "issue_local", "done" } )
          => ( contacts # << >> /\ contacts[1] = "github" )
       /\ SmartIssueDone
          => ( ( \E i \in 1..Len(contacts) : contacts[i] = "local" )
               <=> github \in { "not_attempted", "failure", "raised" } )
       /\ ( SmartIssueDone /\ github = "success" )
          => ( contacts = << "github" >> /\ local_store = "not_attempted" )
       /\ force_local
          => /\ github_token = "unknown"
             /\ github = "not_attempted"
             /\ SmartIssueDone => contacts = << "local" >>

\* GitHub creation raised and the issue was then stored locally
C21_Witness ==
    /\ SmartIssueDone
    /\ github = "raised"
    /\ contacts = << "github", "local" >>
    /\ issue_result.success
    /\ issue_result.storage_type = "local"

\* the first row of the catalog that has the area
FirstRowOf(rows, a) ==
    CHOOSE i \in 1..Len(rows) : rows[i].area = a /\ \A j \in 1..(i - 1) : rows[j].area # a

\* the index, from 0, of the area among the areas in order of first appearance
PositionOf(rows, a) ==
    Cardinality({ b \in { rows[i].area : i \in 1..Len(rows) } :
                    FirstRowOf(rows, b) < FirstRowOf(rows, a) })

\* the reference quota of an area: pool // n, plus 1 for the first pool % n
\* areas, plus 1 for 'Abs' when it has its bonus
ReferenceQuota(rows, a, total, abs_bonus) ==
    LET n == Cardinality({ rows[i].area : i \in 1..Len(rows) })
        bonus == abs_bonus /\ \E i \in 1..Len(rows) : rows[i].area = "Abs"
        pool == IF bonus THEN total - 1 ELSE total
    IN  (pool \div n) + (IF PositionOf(rows, a) < pool % n THEN 1 ELSE 0)
                      + (IF bonus /\ a = "Abs" THEN 1 ELSE 0)

\* C22: get_area_allocations equals the reference for every catalog,
\* total_exercises and more_abs: with the areas in order of first appearance,
\* n their number, bonus = (more_abs and 'Abs' is an area), pool =
\* total_exercises - 1 if bonus else total_exercises, the area at index i gets
\* pool // n, plus 1 if i < pool % n, plus 1 if bonus and the area is 'Abs'.
C22_AllocationsEqualReference ==
    op = "allocations"
    => /\ DOMAIN allocation = { df[i].area : i \in 1..Len(df) }
       /\ \A a \in DOMAIN allocation :
            allocation[a] = ReferenceQuota(df, a, total_exercises, more_abs)

\* the remainder 2 of the pool 5 goes to the first two of three areas, and
\* 'Abs', the second, has its bonus on top
C22_Witness ==
    /\ op = "allocations"
    /\ more_abs
    /\ unique_areas(df) = << "Legs", "Abs", "Upper" >>
    /\ total_exercises = 6
    /\ allocation = [a \in { "Legs", "Abs", "Upper" } |->
                       IF a = "Legs" THEN 2 ELSE IF a = "Abs" THEN 3 ELSE 1]

\* C26: every quota returned by get_area_allocations is a non-negative
\* integer, for every catalog (every order of its areas), every
\* total_exercises >= 0 and both values of more_abs, total_exercises = 0 with
\* more_abs=True and an 'Abs' area included.
C26_QuotasAreNonNegative ==
    op = "allocations" => \A a \in DOMAIN allocation : allocation[a] >= 0

\* the quotas of a call, in quota-map order: the supplied ones when given,
\* otherwise those computed for 2 exercises per area and 3 for 'Abs'
QuotaItems ==
    IF custom_allocations # << >>
    THEN custom_allocations
    ELSE LET areas == unique_areas(df)
             total == SumSeq([i \in 1..Len(areas) |-> IF areas[i] = "Abs" THEN 3 ELSE 2])
         IN  [i \in 1..Len(areas) |->
                << areas[i], get_area_allocations(df, total, TRUE)[areas[i]] >>]

\* the column comes from one call of get_random_exercises_with_area_coverage
FromCoverageCall(column) ==
    /\ PairwiseDistinct(column.exercises)
    /\ \E sel \in CoverageSelections(df, 2 * column.day, plan_total_exercises(df),
                                      DefaultTolerance) :
         Range(column.exercises) = sel.names

\* the column is the concatenation, in quota-map order, of one get_exercises
\* call per area with that area's quota
FromQuotaCalls(column) ==
    \E r \in QuotaDayResults(df, QuotaItems, 2 * column.day) : column.exercises = r.names

\* C23: generate_workout_plan chooses the mode once for all levels of a call:
\* with use_area_coverage true and no explicit quotas every level's column
\* comes from one get_random_exercises_with_area_coverage call; otherwise
\* (explicit quotas, even with use_area_coverage true, or use_area_coverage
\* false) every level's column is the concatenation, in quota-map order, of one
\* get_exercises call per area with that area's quota, the supplied quotas when
\* given and computed quotas otherwise.
C23_ModeChosenOncePerCall ==
    [][ pc = "plan_loop"
        => /\ use_area_coverage' = use_area_coverage
           /\ custom_allocations' = custom_allocations
           /\ Len(workout_df') = Len(workout_df) + 1
              => LET column == workout_df'[Len(workout_df')]
                 IN  /\ column.day = days[Len(workout_df')]
                     /\ IF use_area_coverage /\ custom_allocations = << >>
                        THEN FromCoverageCall(column)
                        ELSE FromQuotaCalls(column) ]_vars

\* a plan over two levels built from explicit quotas although coverage was asked
C23_Witness ==
    /\ PlanReturned
    /\ use_area_coverage
    /\ custom_allocations = << << "Legs", 1 >>, << "Abs", 2 >> >>
    /\ Len(plan.columns) = 2
    /\ plan.information = << "mean", "Legs", "Abs", "Abs" >>

\* C24: when all 1000 attempts of get_random_exercises_with_area_coverage
\* are rejected, the operation raises nothing and returns a fallback selection
\* that still contains at least one exercise of every area, in the form of an
\* accepted result (a list of distinct names of the catalog); it is built
\* without checking the tolerance, so its mean may be off the target.
C24_FallbackCoversEveryArea ==
    ( op = "coverage" /\ pc = "done" /\ attempt = MaxCoverageAttempts )
    => /\ ret = "fallback"
       /\ PairwiseDistinct(result)
       /\ Range(result) \subseteq Range(exercise_list(df))
       /\ \A a \in { df[i].area : i \in 1..Len(df) } :
            \E k \in 1..Len(result) :
              \E i \in 1..Len(df) : df[i].area = a /\ df[i].exercise = result[k]

\* a fallback result of the requested length, over a catalog of unique names,
\* whose mean difficulty is not within the tolerance of the target
C24_Witness ==
    /\ op = "coverage"
    /\ ret = "fallback"
    /\ PairwiseDistinct(exercise_list(df))
    /\ Len(result) = exercise_amount
    /\ ~ NamesMeanWithin(df, result, difficulty, tolerance)

\* the calls a coverage attempt makes to the random generator: one choice per
\* area, and one choices for the fill when there is one
CallsPerCoverageDraw ==
    NumAreas + (IF exercise_amount > NumAreas THEN 1 ELSE 0)

\* a step of a sampling loop ends the call, or counts one more rejected attempt
EndsOrCountsOneMore ==
    \/ pc' = "done" /\ attempt' = attempt
    \/ pc' = pc /\ attempt' = attempt + 1 /\ ret' = "none"

\* the step taken at the bound: no sampling attempt; get_exercises draws
\* nothing more, the coverage allocator makes its one fallback draw
EndsAtBound ==
    /\ pc' = "done"
    /\ attempt' = attempt
    /\ draws' = IF pc = "ge_loop" THEN draws ELSE draws + CallsPerCoverageDraw

LoopStepsEndOrCount ==
    [][ ( pc \in { "ge_loop", "cov_loop" } ) => EndsOrCountsOneMore ]_vars

NoAttemptAtBound ==
    [][ ( pc \in { "ge_loop", "cov_loop" } /\ attempt = 1000 ) => EndsAtBound ]_vars

\* C25: every allocator call ends within its bound, for every sequence of
\* draws: get_exercises makes at most 1000 sampling attempts,
\* get_random_exercises_with_area_coverage at most 1000 attempts followed by at
\* most one fallback draw; every step of a sampling loop either ends the call
\* or counts one more rejected attempt; an accepted result comes from the
\* attempt that follows the rejected ones; once the bound is reached no
\* attempt is made.
C25_CallsEndWithinBound ==
    /\ [] ( attempt <= 1000 )
    /\ [] ( op = "get_exercises" => draws <= 1000 )
    /\ [] ( op = "coverage" => draws <= 1001 * CallsPerCoverageDraw )
    /\ [] ( ( op = "get_exercises" /\ ret = "accepted" ) => draws = attempt + 1 )
    /\ [] ( ( op = "coverage" /\ ret = "accepted" )
            => draws = (attempt + 1) * CallsPerCoverageDraw )
    /\ LoopStepsEndOrCount
    /\ NoAttemptAtBound

\* a coverage call over one area that made 1000 rejected attempts and then the
\* fallback draw, two calls to the random generator each
C25_Witness ==
    /\ op = "coverage"
    /\ ret = "fallback"
    /\ NumAreas = 1
    /\ exercise_amount = 2
    /\ attempt = 1000
    /\ draws = 2002

\* the sum of the first i quotas
QuotaSumUpTo(items, i) == SumSeq([j \in 1..i |-> items[j][2]])

\* the area whose quota the k-th exercise row belongs to
RowArea(items, k) ==
    items[CHOOSE i \in 1..Len(items) :
            QuotaSumUpTo(items, i - 1) < k /\ k <= QuotaSumUpTo(items, i)][1]

\* a plan built in quota mode has been returned
QuotaPlanReturned ==
    PlanReturned /\ ( custom_allocations # << >> \/ ~ use_area_coverage )

\* C27: in quota mode (explicit quotas, or use_area_coverage false) with known
\* areas and non-negative quotas, every difficulty column of the plan has
\* exactly 1 + (sum of the quotas) rows whatever the outcome of each per-area
\* sampling (accepted draw, padding, all placeholders), and the rows of an
\* area's quota, placeholders included, carry that area's name as information
\* label, in quota-map order.
C27_QuotaColumnsHaveQuotaRows ==
    QuotaPlanReturned
    => LET rows == QuotaSumUpTo(QuotaItems, Len(QuotaItems))
       IN  /\ \A i \in 1..Len(plan.columns) : Len(plan.columns[i].exercises) = rows
           /\ Len(plan.information) = 1 + rows
           /\ plan.information[1] = "mean"
           /\ \A k \in 1..rows : plan.information[k + 1] = RowArea(QuotaItems, k)

\* a quota-mode plan over two levels with explicit quotas: for 'Legs' an
\* accepted draw in one column and the placeholder of an exhausted call in the
\* other, for 'Abs' the padding of a short area
C27_Witness ==
    /\ QuotaPlanReturned
    /\ custom_allocations = << << "Legs", 1 >>, << "Abs", 2 >> >>
    /\ Len(plan.columns) = 2
    /\ \E i, j \in 1..2 :
         /\ plan.columns[i].exercises[1] # ""
         /\ plan.columns[j].exercises[1] = ""
         /\ plan.columns[i].exercises[2] # ""
         /\ plan.columns[i].exercises[3] = ""

\* the column holds no placeholder: with quotas of at least 1, every
\* get_exercises call of the level returned an accepted draw
AllAccepted(column) ==
    /\ \A i \in 1..Len(QuotaItems) : QuotaItems[i][2] >= 1
    /\ \A k \in 1..Len(column.exercises) : column.exercises[k] # ""

\* C28: in quota mode with a catalog whose exercise names are unique, if for a
\* level every per-area get_exercises call returns an accepted draw (no
\* placeholder and no padding in the column), the value of the column's 'mean'
\* row is within 0.5 of the level.
C28_AcceptedColumnsMeetLevel ==
    ( QuotaPlanReturned /\ PairwiseDistinct(exercise_list(df)) )
    => \A i \in 1..Len(plan.columns) :
         AllAccepted(plan.columns[i])
         => LET mean == plan.columns[i].mean
            IN  Abs(2 * mean[1] - 2 * plan.columns[i].day * mean[2]) <= mean[2]

\* a column of level 4 made of an accepted draw of two 'Legs' names and an
\* accepted draw of one 'Abs' name
C28_Witness ==
    /\ QuotaPlanReturned
    /\ df = TwoAreaCatalog
    /\ custom_allocations = << << "Legs", 2 >>, << "Abs", 1 >> >>
    /\ \E i \in 1..Len(plan.columns) :
         /\ plan.columns[i].day = 4
         /\ Range(plan.columns[i].exercises) = { "A", "B", "C" }
         /\ plan.columns[i].mean = << 12, 3 >>

\* C29: generate_workout_plan called with an empty list of difficulty levels
\* does not return an empty plan: it fails with an error (the information
\* labels are never computed), in coverage mode and in quota mode, and whether
\* or not save_to_repo is set.
C29_EmptyDaysRaises ==
    ( op = "generate_workout_plan" /\ pc = "done" /\ days = << >> )
    => /\ ret = "raised"
       /\ error = "UnboundLocalError"
       /\ information_rows = << >>
       /\ plan = [information |-> << >>, columns |-> << >>]
       /\ save_outcome = "none"

\* the call failed in coverage mode with save_to_repo set
C29_Witness ==
    /\ op = "generate_workout_plan"
    /\ pc = "done"
    /\ days = << >>
    /\ use_area_coverage
    /\ custom_allocations = << >>
    /\ save_to_repo
    /\ error = "UnboundLocalError"

\* the number of distinct exercise names of the catalog
NumNames == Cardinality(Range(exercise_list(df)))

\* C30: when exercise_amount is greater than the number of distinct exercise
\* names of the catalog, no attempt of get_random_exercises_with_area_coverage
\* is accepted, the result always comes from the fallback, and it has at most
\* as many entries as the catalog has distinct names, hence fewer than
\* exercise_amount (how many depends on the draw).
C30_MoreThanNamesAlwaysFallsBack ==
    ( op = "coverage" /\ exercise_amount > NumNames )
    => /\ ret \in { "none", "fallback" }
       /\ pc = "done"
          => /\ ret = "fallback"
             /\ attempt = 1000
             /\ Len(result) <= NumNames
             /\ Len(result) < exercise_amount
             /\ PairwiseDistinct(result)

\* three exercises asked of a catalog of two names: a fallback result of one
\* name, where another draw gives two
C30_Witness ==
    /\ op = "coverage"
    /\ ret = "fallback"
    /\ df = PairCatalog
    /\ exercise_amount = 3
    /\ Len(result) = 1

====
